---- MODULE Spec2Model ----
(***************************************************************************)
(* Model of flaskr/db.py: the request-scoped SQLite connection manager     *)
(* (get_db, close_db), the schema bootstrap (init_db), the init-db command *)
(* (init_db_command) and the application registration (init_app).          *)
(*                                                                         *)
(* A connection handle is the index of its record in conns; a new          *)
(* sqlite3.connect() result is a new object, hence a new index.  The       *)
(* per-context namespace flask.g is modelled by g[c], the value of its     *)
(* 'db' attribute, with None standing for "'db' not in g".                 *)
(***************************************************************************)
EXTENDS Integers, Sequences, FiniteSets

\* ------------------------------------------------------------------ bounds
NumCtx == 2
MaxConns == 2
MaxInitApp == 2

Ctx == 1..NumCtx
None == 0
\* The value a teardown passes to close_db: None or the raised exception.
Exception == 1
Errors == {None, Exception}

VARIABLES
    g,            \* g[c]: the 'db' attribute of context c's flask.g, or None
    conns,        \* every connection sqlite3.connect() has returned so far
    schema,       \* state of the tables in the storage file
    ctxState,     \* "new", "active" or "ended" for each context
    app,          \* the application's teardown functions and CLI commands
    last,         \* the last operation: name, context, result, events
    returned,     \* handles get_db returned to c since c's last close_db
    everReturned, \* handles get_db ever returned to c
    teardownRuns  \* teardown functions run when context c ended

vars == <<g, conns, schema, ctxState, app, last, returned, everReturned,
          teardownRuns>>

\* ---------------------------------------------------------------- helpers
\* The object sqlite3.connect() returns, opened from context c.
Connection(c) ==
    [owner |-> c, closed |-> FALSE, closes |-> 0, closer |-> None,
     row_factory |-> "tuple"]

\* sqlite3.Connection.close() called from context c.
Close(conn, c) ==
    [conn EXCEPT !.closed = TRUE, !.closes = @ + 1,
                 !.closer = IF conn.closed THEN @ ELSE c]

\* The part of the state the functions of db.py read and write.
State == [g |-> g, conns |-> conns, schema |-> schema]

Result(st, ret, raised, events) ==
    [g |-> st.g, conns |-> st.conns, schema |-> st.schema,
     ret |-> ret, raised |-> raised, events |-> events]

\* --------------------------------------------------------------- get_db
get_db_no_store(st, c, openOk) ==
    IF st.g[c] = None
    THEN IF openOk
         THEN LET h == Len(st.conns) + 1
                  opened == Append(st.conns, Connection(c))
              IN [Result(st, h, "none", <<"connect">>) EXCEPT
                     !.conns = [opened EXCEPT ![h].row_factory = "Row"]]
         ELSE Result(st, None, "OperationalError", <<"connect_failed">>)
    ELSE Result(st, st.g[c], "none", <<>>)

get_db_always_connect(st, c, openOk) ==
    IF openOk
    THEN LET h == Len(st.conns) + 1
             opened == Append(st.conns, Connection(c))
         IN [Result(st, h, "none", <<"connect">>) EXCEPT
                !.g = [st.g EXCEPT ![c] = h],
                !.conns = [opened EXCEPT ![h].row_factory = "Row"]]
    ELSE Result(st, None, "OperationalError", <<"connect_failed">>)

get_db_cached(st, c, openOk) ==
    LET mine == {h \in 1..Len(st.conns) : st.conns[h].owner = c}
    IN IF st.g[c] = None
       THEN IF mine # {}
            THEN LET h == CHOOSE x \in mine : \A y \in mine : y <= x
                 IN [Result(st, h, "none", <<>>) EXCEPT
                        !.g = [st.g EXCEPT ![c] = h]]
            ELSE IF openOk
                 THEN LET h == Len(st.conns) + 1
                          opened == Append(st.conns, Connection(c))
                      IN [Result(st, h, "none", <<"connect">>) EXCEPT
                             !.g = [st.g EXCEPT ![c] = h],
                             !.conns = [opened EXCEPT
                                           ![h].row_factory = "Row"]]
                 ELSE Result(st, None, "OperationalError",
                             <<"connect_failed">>)
       ELSE Result(st, st.g[c], "none", <<>>)

get_db_shared(st, c, openOk) ==
    LET held == {st.g[d] : d \in Ctx} \ {None}
    IN IF held = {}
       THEN IF openOk
            THEN LET h == Len(st.conns) + 1
                     opened == Append(st.conns, Connection(c))
                 IN [Result(st, h, "none", <<"connect">>) EXCEPT
                        !.g = [st.g EXCEPT ![c] = h],
                        !.conns = [opened EXCEPT ![h].row_factory = "Row"]]
            ELSE Result(st, None, "OperationalError", <<"connect_failed">>)
       ELSE LET h == CHOOSE x \in held : TRUE
            IN [Result(st, h, "none", <<>>) EXCEPT
                   !.g = [st.g EXCEPT ![c] = h]]

\* get_db(): if 'db' is not in g, connect, store the connection in g.db and
\* set its row_factory; return g.db.  A failing sqlite3.connect() raises
\* before the assignment to g.db.
get_db(st, c, openOk) ==
    IF st.g[c] = None
    THEN IF openOk
         THEN LET h == Len(st.conns) + 1
                  opened == Append(st.conns, Connection(c))
              IN [Result(st, h, "none", <<"connect">>) EXCEPT
                     !.g = [st.g EXCEPT ![c] = h],
                     !.conns = [opened EXCEPT ![h].row_factory = "Row"]]
         ELSE Result(st, None, "OperationalError", <<"connect_failed">>)
    ELSE Result(st, st.g[c], "none", <<>>)

\* -------------------------------------------------------------- close_db
close_db_keep(st, c, e) ==
    LET db == st.g[c]
    IN IF db # None
       THEN [Result(st, None, "none", <<"close">>) EXCEPT
                !.conns = [st.conns EXCEPT ![db] = Close(@, c)]]
       ELSE Result(st, None, "none", <<>>)

close_db_no_close(st, c, e) ==
    [Result(st, None, "none", <<>>) EXCEPT !.g = [st.g EXCEPT ![c] = None]]

close_db_skip_on_error(st, c, e) ==
    LET db == st.g[c]
        popped == [st.g EXCEPT ![c] = None]
    IN IF e = None /\ db # None
       THEN [Result(st, None, "none", <<"close">>) EXCEPT
                !.g = popped,
                !.conns = [st.conns EXCEPT ![db] = Close(@, c)]]
       ELSE Result(st, None, "none", <<>>)

\* close_db(e): db = g.pop('db', None); close db if it is not None.
\* The argument e is not used.
close_db(st, c, e) ==
    LET db == st.g[c]
        popped == [st.g EXCEPT ![c] = None]
    IN IF db # None
       THEN [Result(st, None, "none", <<"close">>) EXCEPT
                !.g = popped,
                !.conns = [st.conns EXCEPT ![db] = Close(@, c)]]
       ELSE [Result(st, None, "none", <<>>) EXCEPT !.g = popped]

\* --------------------------------------------------------------- init_db
init_db_close_after(st, c, openOk, readOk, execOk) ==
    LET r == get_db(st, c, openOk)
        done == IF r.raised # "none" THEN r
                ELSE IF ~readOk
                THEN [r EXCEPT !.ret = None, !.raised = "OSError",
                               !.events = @ \o <<"open_resource_failed">>]
                ELSE IF ~execOk
                THEN [r EXCEPT !.ret = None, !.raised = "Error",
                               !.schema = "unspecified",
                               !.events = @ \o <<"read",
                                                 "executescript_failed">>]
                ELSE [r EXCEPT !.ret = None, !.schema = "initialized",
                               !.events = @ \o <<"read", "executescript">>]
        cl == close_db([g |-> done.g, conns |-> done.conns,
                        schema |-> done.schema], c, None)
    IN [done EXCEPT !.g = cl.g, !.conns = cl.conns,
                    !.events = @ \o cl.events]

init_db_ignore_exec(st, c, openOk, readOk, execOk) ==
    LET r == get_db(st, c, openOk)
    IN IF r.raised # "none" THEN r
       ELSE IF ~readOk
       THEN [r EXCEPT !.ret = None, !.raised = "OSError",
                      !.events = @ \o <<"open_resource_failed">>]
       ELSE IF ~execOk
       THEN [r EXCEPT !.ret = None, !.schema = "unspecified",
                      !.events = @ \o <<"read", "executescript_failed">>]
       ELSE [r EXCEPT !.ret = None, !.schema = "initialized",
                      !.events = @ \o <<"read", "executescript">>]

\* init_db(): db = get_db(); open and read schema.sql; db.executescript().
\* Each step is attempted once and the first failure propagates.
init_db(st, c, openOk, readOk, execOk) ==
    LET r == get_db(st, c, openOk)
    IN IF r.raised # "none" THEN r
       ELSE IF ~readOk
       THEN [r EXCEPT !.ret = None, !.raised = "OSError",
                      !.events = @ \o <<"open_resource_failed">>]
       ELSE IF ~execOk
       THEN [r EXCEPT !.ret = None, !.raised = "Error",
                      !.schema = "unspecified",
                      !.events = @ \o <<"read", "executescript_failed">>]
       ELSE [r EXCEPT !.ret = None, !.schema = "initialized",
                      !.events = @ \o <<"read", "executescript">>]

\* ------------------------------------------------------- init_db_command
init_db_command_swallow(st, c, openOk, readOk, execOk) ==
    LET r == init_db(st, c, openOk, readOk, execOk)
    IN [r EXCEPT !.raised = "none", !.events = @ \o <<"echo">>]

\* init_db_command(): init_db(), then echo the confirmation message.
init_db_command(st, c, openOk, readOk, execOk) ==
    LET r == init_db(st, c, openOk, readOk, execOk)
    IN IF r.raised = "none"
       THEN [r EXCEPT !.events = @ \o <<"echo">>]
       ELSE r

\* The exit status of a command run: an exception that leaves the command
\* function ends the command with a non-zero status.
ExitStatus(r) == IF r.raised = "none" THEN 0 ELSE 1

\* -------------------------------------------------------------- init_app
\* init_app(app): register close_db as a teardown function and add the
\* init-db command.
init_app(a) ==
    [teardown_funcs |-> Append(a.teardown_funcs, "close_db"),
     commands |-> a.commands \cup {"init-db"}]

\* The end of a context calls every registered teardown function with the
\* error (or None) the context ended with.
RECURSIVE do_teardown(_, _, _, _)
do_teardown(st, c, e, n) ==
    IF n = 0 THEN Result(st, None, "none", <<>>)
    ELSE LET r == close_db(st, c, e)
             rest == do_teardown([g |-> r.g, conns |-> r.conns,
                                  schema |-> r.schema], c, e, n - 1)
         IN [rest EXCEPT !.events = r.events \o @]

\* ----------------------------------------------------------------- Init
Init ==
    /\ g = [c \in Ctx |-> None]
    /\ conns = <<>>
    /\ schema = "none"
    /\ ctxState = [c \in Ctx |-> "new"]
    /\ app = [teardown_funcs |-> <<>>, commands |-> {}]
    /\ last = [op |-> "init", ctx |-> None, arg |-> None, ret |-> None,
               raised |-> "none", events |-> <<>>]
    /\ returned = [c \in Ctx |-> {}]
    /\ everReturned = [c \in Ctx |-> {}]
    /\ teardownRuns = [c \in Ctx |-> 0]

Last(op, c, e, r) ==
    [op |-> op, ctx |-> c, arg |-> e, ret |-> r.ret, raised |-> r.raised,
     events |-> r.events]

\* sqlite3.connect() can return at most MaxConns connections in a run.
MayOpen(c, openOk) == (openOk /\ g[c] = None) => Len(conns) < MaxConns

Record(c, acq) ==
    IF acq.ret # None
    THEN /\ returned' = [returned EXCEPT ![c] = @ \cup {acq.ret}]
         /\ everReturned' = [everReturned EXCEPT ![c] = @ \cup {acq.ret}]
    ELSE UNCHANGED <<returned, everReturned>>

\* -------------------------------------------------------------- actions
InitApp ==
    /\ Len(app.teardown_funcs) < MaxInitApp
    /\ app' = init_app(app)
    /\ last' = [op |-> "init_app", ctx |-> None, arg |-> None, ret |-> None,
                raised |-> "none", events |-> <<>>]
    /\ UNCHANGED <<g, conns, schema, ctxState, returned, everReturned,
                   teardownRuns>>

PushContext(c) ==
    /\ ctxState[c] = "new"
    /\ ctxState' = [ctxState EXCEPT ![c] = "active"]
    /\ last' = [op |-> "push_context", ctx |-> c, arg |-> None, ret |-> None,
                raised |-> "none", events |-> <<>>]
    /\ UNCHANGED <<g, conns, schema, app, returned, everReturned,
                   teardownRuns>>

GetDb(c) ==
    /\ ctxState[c] = "active"
    /\ \E openOk \in BOOLEAN :
          /\ MayOpen(c, openOk)
          /\ LET r == get_db(State, c, openOk)
             IN /\ g' = r.g
                /\ conns' = r.conns
                /\ schema' = r.schema
                /\ last' = Last("get_db", c, None, r)
                /\ Record(c, r)
    /\ UNCHANGED <<ctxState, app, teardownRuns>>

CloseDb(c) ==
    /\ ctxState[c] = "active"
    /\ \E e \in Errors :
          LET r == close_db(State, c, e)
          IN /\ g' = r.g
             /\ conns' = r.conns
             /\ schema' = r.schema
             /\ last' = Last("close_db", c, e, r)
    /\ returned' = [returned EXCEPT ![c] = {}]
    /\ UNCHANGED <<ctxState, app, everReturned, teardownRuns>>

InitDb(c) ==
    /\ ctxState[c] = "active"
    /\ \E openOk, readOk, execOk \in BOOLEAN :
          /\ MayOpen(c, openOk)
          /\ LET r == init_db(State, c, openOk, readOk, execOk)
             IN /\ g' = r.g
                /\ conns' = r.conns
                /\ schema' = r.schema
                /\ last' = Last("init_db", c, None, r)
          /\ Record(c, get_db(State, c, openOk))
    /\ UNCHANGED <<ctxState, app, teardownRuns>>

InitDbCommand(c) ==
    /\ ctxState[c] = "active"
    /\ "init-db" \in app.commands
    /\ \E openOk, readOk, execOk \in BOOLEAN :
          /\ MayOpen(c, openOk)
          /\ LET r == init_db_command(State, c, openOk, readOk, execOk)
             IN /\ g' = r.g
                /\ conns' = r.conns
                /\ schema' = r.schema
                /\ last' = Last("init_db_command", c, None, r)
          /\ Record(c, get_db(State, c, openOk))
    /\ UNCHANGED <<ctxState, app, teardownRuns>>

PopContext(c) ==
    /\ ctxState[c] = "active"
    /\ \E e \in Errors :
          LET n == Len(app.teardown_funcs)
              r == do_teardown(State, c, e, n)
          IN /\ g' = r.g
             /\ conns' = r.conns
             /\ schema' = r.schema
             /\ last' = Last("pop_context", c, e, r)
             /\ teardownRuns' = [teardownRuns EXCEPT ![c] = n]
             /\ returned' = [returned EXCEPT
                                ![c] = IF n > 0 THEN {} ELSE @]
    /\ ctxState' = [ctxState EXCEPT ![c] = "ended"]
    /\ UNCHANGED <<app, everReturned>>

Next ==
    \/ InitApp
    \/ \E c \in Ctx : PushContext(c)
    \/ \E c \in Ctx : GetDb(c)
    \/ \E c \in Ctx : CloseDb(c)
    \/ \E c \in Ctx : InitDb(c)
    \/ \E c \in Ctx : InitDbCommand(c)
    \/ \E c \in Ctx : PopContext(c)

Spec == Init /\ [][Next]_vars

\* ------------------------------------------------------------ vocabulary
Handles == 1..Len(conns)
OpenedBy(c) == {h \in Handles : conns[h].owner = c}
Acquires == {"get_db", "init_db", "init_db_command"}
Releases == {"close_db", "pop_context"}

\* ------------------------------------------------------------------- C1
\* A get_db step in context c (the step that sets last to a get_db of c).
IsStep(ops, c) == last' # last /\ last'.op \in ops /\ last'.ctx = c

C1_Inv ==
    \A c \in Ctx : returned[c] \subseteq ({g[c]} \ {None})

C1_Step ==
    \A c \in Ctx :
        IsStep({"get_db"}, c) =>
            /\ g[c] # None =>
                  /\ last'.ret = g[c]
                  /\ last'.raised = "none"
                  /\ g' = g
                  /\ conns' = conns
            /\ (g[c] = None /\ last'.raised = "none") =>
                  /\ Len(conns') = Len(conns) + 1
                  /\ last'.ret = Len(conns')
                  /\ g' = [g EXCEPT ![c] = Len(conns')]

\* C1: within one context, all get_db calls made with no close_db in between
\* return the same handle, which is the one in the slot: the first call
\* opens a connection and stores it, and a later call returns the stored
\* handle, opens nothing and leaves the slot as it is.
C1_SameHandle == []C1_Inv /\ [][C1_Step]_vars

\* A second get_db of a context returned the handle the first one stored.
C1_Witness ==
    \E c \in Ctx :
        /\ last.op = "get_db" /\ last.ctx = c
        /\ last.events = <<>>
        /\ last.ret # None /\ last.ret = g[c]
        /\ returned[c] = {g[c]}

\* ------------------------------------------------------------------- C2
Unclosed(c) == {h \in OpenedBy(c) : ~conns[h].closed}

\* C2: in every reachable state each context has at most one connection
\* that it opened and that is not closed.
C2_AtMostOneOpen ==
    \A c \in Ctx : Cardinality(Unclosed(c)) <= 1

\* A context that opened two connections, one of them still open, after a
\* run of init_db.
C2_Witness ==
    \E c \in Ctx :
        /\ last.op = "init_db" /\ last.ctx = c
        /\ Cardinality(OpenedBy(c)) >= 2
        /\ Cardinality(Unclosed(c)) = 1

\* ------------------------------------------------------------------- C3
C3_Step ==
    \A c \in Ctx :
        IsStep({"close_db"}, c) =>
            /\ last'.raised = "none"
            /\ g'[c] = None
            /\ g[c] = None => (conns' = conns /\ g' = g)
            /\ g[c] # None =>
                  /\ conns'[g[c]].closed
                  /\ conns'[g[c]].closes = conns[g[c]].closes + 1
                  /\ \A h \in Handles : h # g[c] => conns'[h] = conns[h]
                  /\ Len(conns') = Len(conns)

C3_Inv == \A h \in Handles : conns[h].closes <= 1

\* C3: close_db never raises, does nothing when the slot is EMPTY, closes
\* the associated handle once when there is one, and always leaves the slot
\* EMPTY; no handle is ever closed twice, however often close_db is called.
C3_ReleaseIdempotent == []C3_Inv /\ [][C3_Step]_vars

\* close_db called again right after a close_db that closed the handle.
C3_Witness ==
    \E c \in Ctx :
        /\ last.op = "close_db" /\ last.ctx = c
        /\ last.events = <<>>
        /\ g[c] = None
        /\ \E h \in OpenedBy(c) : conns[h].closes = 1
        /\ returned[c] = {}

\* ------------------------------------------------------------------- C4
C4_Step ==
    \A c \in Ctx :
        \* a get_db that finds the slot EMPTY returns a handle never seen
        /\ (IsStep(Acquires, c) /\ g[c] = None /\ g'[c] # None) =>
              /\ g'[c] \notin Handles
              /\ g'[c] \notin everReturned[c]
              /\ g'[c] \in everReturned'[c]
        \* release always ends in EMPTY
        /\ IsStep({"close_db"}, c) => g'[c] = None
        \* a successful acquire always ends in OPEN
        /\ (IsStep(Acquires, c) /\ last'.raised = "none") => g'[c] # None
        \* the only transitions of the slot
        /\ \/ g'[c] = g[c]
           \/ g[c] = None /\ g'[c] # None /\ IsStep(Acquires, c)
           \/ g[c] # None /\ g'[c] = None /\ IsStep(Releases, c)

C4_Inv == \A c \in Ctx : ctxState[c] = "new" => g[c] = None

\* C4: close_db followed by get_db in the same context yields a handle
\* distinct from every handle returned before; the slot starts EMPTY and
\* changes only EMPTY->OPEN on an acquire, OPEN->OPEN (same handle) on a
\* later acquire, and OPEN->EMPTY or EMPTY->EMPTY on a release.
C4_Transitions == []C4_Inv /\ [][C4_Step]_vars

\* A context that went OPEN -> EMPTY -> OPEN: two handles were returned to
\* it, the first is closed and the second is in the slot.
C4_Witness ==
    \E c \in Ctx :
        /\ Cardinality(everReturned[c]) = 2
        /\ g[c] # None
        /\ returned[c] = {g[c]}
        /\ \E h \in everReturned[c] : h # g[c] /\ conns[h].closed

\* ------------------------------------------------------------------- C5
C5_Inv ==
    \A c \in Ctx :
        (ctxState[c] = "ended" /\ teardownRuns[c] > 0) =>
            /\ g[c] = None
            /\ \A h \in OpenedBy(c) : conns[h].closed

C5_Step ==
    \A c \in Ctx :
        (IsStep({"pop_context"}, c) /\ Len(app.teardown_funcs) > 0) =>
            /\ g'[c] = None
            /\ last'.raised = "none"
            /\ g[c] = None => (g' = g /\ conns' = conns)

\* C5: once init_app has registered close_db as a teardown function, the
\* end of a context (with or without an error) runs close_db: the slot is
\* EMPTY at the end of the context, every connection the context opened is
\* closed, and a teardown of a context with an EMPTY slot changes nothing.
C5_Teardown == []C5_Inv /\ [][C5_Step]_vars

\* A context that ended with an error while it held a connection, which the
\* teardown closed.
C5_Witness ==
    \E c \in Ctx :
        /\ last.op = "pop_context" /\ last.ctx = c
        /\ last.arg = Exception
        /\ ctxState[c] = "ended" /\ teardownRuns[c] > 0
        /\ last.events # <<>>
        /\ OpenedBy(c) # {}

\* ------------------------------------------------------------------- C6
Events(r) == {r.events[i] : i \in 1..Len(r.events)}

C6_Step ==
    \A c \in Ctx :
        IsStep(Acquires, c) =>
            /\ last'.raised = "OperationalError"
                  <=> "connect_failed" \in Events(last')
            /\ last'.raised = "OperationalError" =>
                  /\ g[c] = None
                  /\ g' = g
                  /\ conns' = conns
                  /\ last'.ret = None
                  /\ (last'.op = "init_db_command") =>
                        /\ "echo" \notin Events(last')
                        /\ ExitStatus(last') # 0

\* C6: when sqlite3.connect() fails, get_db raises the storage-open error,
\* stores nothing in the slot (it stays EMPTY, so the next get_db connects
\* again), and an init-db command run then ends with a non-zero status and
\* does not echo the confirmation message.
C6_OpenFailure == [][C6_Step]_vars

\* An init-db command whose connect failed.
C6_Witness ==
    \E c \in Ctx :
        /\ last.op = "init_db_command" /\ last.ctx = c
        /\ last.raised = "OperationalError"
        /\ g[c] = None

\* ------------------------------------------------------------------- C7
Failures == {"connect_failed", "open_resource_failed", "executescript_failed"}

\* C7: an init-db run echoes the confirmation message only after the whole
\* script has been executed without error, and a run in which the connect,
\* the read of the schema resource or the script execution fails never
\* echoes it.
C7_EchoAfterSuccess ==
    last.op = "init_db_command" =>
        /\ "echo" \in Events(last) =>
              /\ \E i, j \in 1..Len(last.events) :
                    /\ i < j
                    /\ last.events[i] = "executescript"
                    /\ last.events[j] = "echo"
              /\ last.raised = "none"
              /\ schema = "initialized"
        /\ (Events(last) \cap Failures # {}) =>
              /\ "echo" \notin Events(last)
              /\ last.raised # "none"
              /\ ExitStatus(last) # 0
        /\ ("echo" \in Events(last)) \/ (Events(last) \cap Failures # {})

\* An init-db run that echoed the confirmation message.
C7_Witness ==
    /\ last.op = "init_db_command"
    /\ "echo" \in Events(last)

\* ------------------------------------------------------------------- C8
C8_Step ==
    \A c \in Ctx :
        IsStep(Acquires \cup Releases, c) =>
            /\ \A d \in Ctx \ {c} :
                  /\ g'[d] = g[d]
                  /\ returned'[d] = returned[d]
                  /\ everReturned'[d] = everReturned[d]
            /\ \A h \in Handles : conns[h].owner # c => conns'[h] = conns[h]
            /\ \A h \in (1..Len(conns')) \ Handles : conns'[h].owner = c
            /\ last'.ret # None => conns'[last'.ret].owner = c

C8_Inv ==
    /\ \A c, d \in Ctx : (c # d /\ g[c] # None) => g[c] # g[d]
    /\ \A c \in Ctx : g[c] # None => conns[g[c]].owner = c
    /\ \A c \in Ctx : everReturned[c] \subseteq OpenedBy(c)
    /\ \A h \in Handles : conns[h].closer \in {None, conns[h].owner}

\* C8: with several contexts active and their steps interleaved, a get_db,
\* init_db or close_db of one context leaves every other context's slot and
\* handles unchanged, a handle is returned to and closed by the context
\* that opened it only, and two contexts never hold the same handle.
C8_Isolation == []C8_Inv /\ [][C8_Step]_vars

\* Two active contexts held different handles of their own, and one of them
\* has just released its handle while the other still holds an open one.
C8_Witness ==
    \E c, d \in Ctx :
        /\ c # d
        /\ ctxState[c] = "active" /\ ctxState[d] = "active"
        /\ last.op = "close_db" /\ last.ctx = c
        /\ last.events = <<"close">>
        /\ \E h \in OpenedBy(c) : conns[h].closer = c
        /\ g[d] # None /\ ~conns[g[d]].closed

\* ------------------------------------------------------------------- C9
Count(r, evs) == Cardinality({i \in 1..Len(r.events) : r.events[i] \in evs})

C9_Step ==
    \A c \in Ctx :
        IsStep({"init_db"}, c) =>
            /\ g[c] # None =>
                  /\ g'[c] = g[c]
                  /\ Len(conns') = Len(conns)
                  /\ "connect" \notin Events(last')
            /\ (g[c] = None /\ last'.raised # "OperationalError") =>
                  /\ Len(conns') = Len(conns) + 1
                  /\ g'[c] = Len(conns')
            /\ last'.raised # "OperationalError" =>
                  /\ g'[c] # None
                  /\ ~conns'[g'[c]].closed
            /\ \A h \in Handles : conns'[h] = conns[h]
            /\ Count(last', {"read", "open_resource_failed"}) <= 1
            /\ Count(last', {"executescript", "executescript_failed"}) <= 1
            /\ "close" \notin Events(last')
            /\ last'.raised = "OSError"
                  <=> "open_resource_failed" \in Events(last')
            /\ last'.raised = "Error"
                  <=> "executescript_failed" \in Events(last')
            /\ last'.raised = "none" <=> "executescript" \in Events(last')

\* C9: init_db gets its connection from get_db (reusing the handle of an
\* OPEN slot, opening one for an EMPTY slot), attempts the read and the
\* script execution at most once each, raises the failure of either as it
\* is, and never closes the handle: after a return, a read failure or an
\* execution failure the slot is OPEN and its handle is not closed.
C9_InitDbPassThrough == [][C9_Step]_vars

\* init_db reused the handle of an OPEN slot, the script execution failed,
\* and the slot still holds the open handle.
C9_Witness ==
    \E c \in Ctx :
        /\ last.op = "init_db" /\ last.ctx = c
        /\ last.raised = "Error"
        /\ last.events = <<"read", "executescript_failed">>
        /\ g[c] # None /\ ~conns[g[c]].closed

\* ------------------------------------------------------------------ C10
\* C10: the handle in a context's slot is open, and every handle the
\* context opened that is not in its slot is closed: no connection leaves
\* the slot without being closed.
C10_SlotOpenOthersClosed ==
    \A c \in Ctx :
        /\ g[c] # None => (g[c] \in OpenedBy(c) /\ ~conns[g[c]].closed)
        /\ \A h \in OpenedBy(c) : h # g[c] => conns[h].closed

\* A handle that get_db returned is closed after the close_db that took it
\* out of the slot.
C10_Witness ==
    \E c \in Ctx :
        /\ last.op = "close_db" /\ last.ctx = c
        /\ last.events = <<"close">>
        /\ g[c] = None
        /\ \E h \in everReturned[c] : conns[h].closed /\ conns[h].closes = 1

====
